---- MODULE Spec2Model ----
(***************************************************************************)
(* Model of the ventilation-specification extractor (AI-CAD):              *)
(*   app/utils.py      normalize_text, deduplicate_lines                   *)
(*   app/parsers.py    parse_equipment, parse_fittings, parse_duct_sizes,  *)
(*                     aggregate_items                                     *)
(*   app/extractor.py  load_patterns (lru_cache), process_upload           *)
(*   app/main.py       extract (thread pool)                               *)
(*                                                                         *)
(* A text is a sequence of characters; a character is a one-character      *)
(* string, or a short name for a non-ASCII glyph (DIA is U+00D8, ...).     *)
(***************************************************************************)
EXTENDS Integers, Sequences, FiniteSets, TLC

VARIABLES
    \* utils.normalize_text
    text,            \* the text, replaced by each call text = normalize_text(text)
    prev,            \* the text before the last call
    calls,           \* number of calls made
    \* extractor.extract_text / utils.deduplicate_lines
    vector_lines, ocr_lines, combined_lines,
    \* parsers.aggregate_items
    items, rows,
    \* parsers.parse_duct_sizes
    phase,           \* "round", "rect", "returned" or "raised"
    match,           \* the loop variable: the match handled last
    handled,         \* number of matches handled so far
    round_counter, rect_counter,
    round_min, round_max, rect_min, rect_max,
    \* parsers.parse_equipment / parsers.parse_fittings
    lines, equipment, equipment_items,
    fittings, window, fittings_items,
    \* extractor.process_upload / extractor.load_patterns, one request per thread
    config_file,     \* state of patterns.yaml: "ok", "missing", "unparsable", "bad_regex"
    cache,           \* the lru_cache entry of load_patterns: 0 (empty) or an instance
    opened,          \* number of times patterns.yaml was opened
    pc,              \* position of each request in process_upload
    held,            \* the configuration instance each request got from load_patterns (0: none)
    executed,        \* the pipeline steps each request has executed
    failure,         \* the HTTP error each request ended with
    \* set once the pure function under study has returned
    returned

normVars == <<text, prev, calls>>
combVars == <<vector_lines, ocr_lines, combined_lines>>
aggVars  == <<items, rows>>
ductVars == <<phase, match, handled, round_counter, rect_counter,
              round_min, round_max, rect_min, rect_max>>
eqVars   == <<equipment, equipment_items>>
fitVars  == <<fittings, window, fittings_items>>
cfgVars  == <<config_file, cache, opened, pc, held, executed, failure>>

vars == <<normVars, combVars, aggVars, ductVars, lines, eqVars, fitVars, cfgVars, returned>>

(***************************************************************************)
(* Characters                                                              *)
(***************************************************************************)
DIA       == "DIA"       \* U+00D8, the canonical diameter glyph
LOWER_DIA == "dia"       \* U+00F8
PHI_LOWER == "phi"       \* U+03C6
PHI_UPPER == "PHI"       \* U+03A6
DEGREE    == "deg"       \* U+00B0
EN_DASH   == "endash"    \* U+2013
EM_DASH   == "emdash"    \* U+2014
FIG_DASH  == "figdash"   \* U+2012
TIMES     == "times"     \* U+00D7
MIDDOT    == "middot"    \* U+00B7
ARROW     == "arrow"     \* U+2192

Digits  == {"0", "1", "2", "3", "4", "5", "6", "7", "8", "9"}
Letters == {"O", "o", "c", "x", "X", "a", "A", "b", "B", "k", "K", "m", "M", "q"}

\* \s of the re module
IsSpace(c) == c \in {" ", "\t", "\n", "\r", "\f"}
\* \d of the re module
IsDigit(c) == c \in Digits
\* \w of the re module (letters, digits, underscore)
IsWord(c) == c \in Digits \cup Letters \cup {"_", DIA, LOWER_DIA, PHI_LOWER, PHI_UPPER}

(***************************************************************************)
(* str helpers                                                             *)
(***************************************************************************)
\* s[i:] of a sequence (i is 1-based)
Tail_(s, i) == SubSeq(s, i, Len(s))

\* text.startswith(src, i-1)
StartsAt(s, src, i) == i + Len(src) - 1 <= Len(s) /\ SubSeq(s, i, i + Len(src) - 1) = src

\* str.replace(src, dst), src non-empty: leftmost non-overlapping occurrences
RECURSIVE ReplaceFrom(_, _, _, _)
ReplaceFrom(s, src, dst, i) ==
    IF i > Len(s) THEN <<>>
    ELSE IF StartsAt(s, src, i) THEN dst \o ReplaceFrom(s, src, dst, i + Len(src))
    ELSE <<s[i]>> \o ReplaceFrom(s, src, dst, i + 1)

Replace(s, src, dst) == ReplaceFrom(s, src, dst, 1)

\* first index >= i of s that holds no whitespace (Len(s)+1 when there is none)
RECURSIVE SkipSpace(_, _)
SkipSpace(s, i) == IF i <= Len(s) /\ IsSpace(s[i]) THEN SkipSpace(s, i + 1) ELSE i

\* number of digits at s[i], s[i+1], ... counted up to most
RECURSIVE DigitRun(_, _, _)
DigitRun(s, i, most) ==
    IF most > 0 /\ i <= Len(s) /\ IsDigit(s[i]) THEN 1 + DigitRun(s, i + 1, most - 1) ELSE 0

\* str.strip()
RECURSIVE RStrip(_)
RStrip(s) == IF s # <<>> /\ IsSpace(s[Len(s)]) THEN RStrip(SubSeq(s, 1, Len(s) - 1)) ELSE s

Strip(s) == RStrip(Tail_(s, SkipSpace(s, 1)))

\* str.split(sep) for a one-character sep: the list of pieces (always at least one)
RECURSIVE SplitFrom(_, _, _, _)
SplitFrom(s, sep, i, cur) ==
    IF i > Len(s) THEN <<cur>>
    ELSE IF s[i] = sep THEN <<cur>> \o SplitFrom(s, sep, i + 1, <<>>)
    ELSE SplitFrom(s, sep, i + 1, Append(cur, s[i]))

Split(s, sep) == SplitFrom(s, sep, 1, <<>>)

\* sep.join(pieces)
RECURSIVE Join(_, _)
Join(pieces, sep) ==
    IF pieces = <<>> THEN <<>>
    ELSE IF Len(pieces) = 1 THEN pieces[1]
    ELSE pieces[1] \o <<sep>> \o Join(Tail(pieces), sep)

(***************************************************************************)
(* utils.normalize_autocad_symbols                                         *)
(***************************************************************************)
\* the replacements dict, in insertion order
replacements == <<
    << <<"%", "%", "c">>, <<DIA>> >>,
    << <<LOWER_DIA>>,     <<DIA>> >>,
    << <<PHI_LOWER>>,     <<DIA>> >>,
    << <<PHI_UPPER>>,     <<DIA>> >>,
    << <<DEGREE>>,        <<DEGREE>> >>,
    << <<EN_DASH>>,       <<"-">> >>,
    << <<EM_DASH>>,       <<"-">> >>,
    << <<FIG_DASH>>,      <<"-">> >>,
    << <<TIMES>>,         <<"x">> >>,
    << <<MIDDOT>>,        <<".">> >> >>

RECURSIVE ApplyReplacements(_, _)
ApplyReplacements(s, k) ==
    IF k > Len(replacements) THEN s
    ELSE ApplyReplacements(Replace(s, replacements[k][1], replacements[k][2]), k + 1)

\* \b before s[i], where s[i] is a word character
WordBoundaryBefore(s, i) == i = 1 \/ ~IsWord(s[i - 1])

\* where the digits of a match of \b[Oo0]\s?(\d{2,4}) at i begin
DiameterDigitsAt(s, i) == IF i + 1 <= Len(s) /\ IsSpace(s[i + 1]) THEN i + 2 ELSE i + 1

\* \b[Oo0]\s?(\d{2,4}) matches at i
DiameterMatchesAt(s, i) ==
    /\ s[i] \in {"O", "o", "0"}
    /\ WordBoundaryBefore(s, i)
    /\ DigitRun(s, DiameterDigitsAt(s, i), 4) >= 2

\* re.sub(r"\b[Oo0]\s?(\d{2,4})", r"DIA\1", s), from index i on
RECURSIVE DiameterSubFrom(_, _)
DiameterSubFrom(s, i) ==
    IF i > Len(s) THEN <<>>
    ELSE IF DiameterMatchesAt(s, i)
         THEN LET d == DiameterDigitsAt(s, i)
                  n == DigitRun(s, d, 4)
              IN  <<DIA>> \o SubSeq(s, d, d + n - 1) \o DiameterSubFrom(s, d + n)
         ELSE <<s[i]>> \o DiameterSubFrom(s, i + 1)

normalize_autocad_symbols(s) == DiameterSubFrom(ApplyReplacements(s, 1), 1)

(***************************************************************************)
(* utils.collapse_whitespace                                               *)
(***************************************************************************)
\* re.sub(r"\s+", " ", s), from index i on
RECURSIVE SquashSpaceFrom(_, _)
SquashSpaceFrom(s, i) ==
    IF i > Len(s) THEN <<>>
    ELSE IF IsSpace(s[i]) THEN <<" ">> \o SquashSpaceFrom(s, SkipSpace(s, i))
    ELSE <<s[i]>> \o SquashSpaceFrom(s, i + 1)

CollapseLine(raw_line) == Strip(SquashSpaceFrom(raw_line, 1))

RECURSIVE CollapseLines(_)
CollapseLines(raw_lines) ==
    IF raw_lines = <<>> THEN <<>>
    ELSE <<CollapseLine(Head(raw_lines))>> \o CollapseLines(Tail(raw_lines))

collapse_whitespace(s) ==
    LET unix  == Replace(Replace(s, <<"\r", "\n">>, <<"\n">>), <<"\r">>, <<"\n">>)
        kept  == CollapseLines(Split(unix, "\n"))
    IN  Join(SelectSeq(kept, LAMBDA line : line # <<>>), "\n")

(***************************************************************************)
(* utils.normalize_text                                                    *)
(***************************************************************************)
\* re.sub of \s*sym\s* (lead = 0) or \s+sym\s* (lead = 1) by repl, from index i on
RECURSIVE SpacedSubFrom(_, _, _, _, _)
SpacedSubFrom(s, sym, lead, repl, i) ==
    IF i > Len(s) THEN <<>>
    ELSE LET k == SkipSpace(s, i)
         IN  IF k <= Len(s) /\ s[k] = sym /\ k - i >= lead
             THEN repl \o SpacedSubFrom(s, sym, lead, repl, SkipSpace(s, k + 1))
             ELSE <<s[i]>> \o SpacedSubFrom(s, sym, lead, repl, i + 1)

\* the six statements of normalize_text, in source order
NormalizeArrows(s) == Replace(Replace(s, <<"-", ">">>, <<ARROW>>), <<"=", ">">>, <<ARROW>>)
CommaSpacing(s)    == SpacedSubFrom(s, ",", 0, <<",", " ">>, 1)
ArrowSpacing(s)    == SpacedSubFrom(s, ARROW, 0, <<" ", ARROW, " ">>, 1)
SlashSpacing(s)    == SpacedSubFrom(s, "/", 1, <<" ", "/", " ">>, 1)

normalize_text(s) ==
    SlashSpacing(ArrowSpacing(CommaSpacing(
        collapse_whitespace(NormalizeArrows(normalize_autocad_symbols(s))))))

(***************************************************************************)
(* utils.deduplicate_lines                                                 *)
(***************************************************************************)
\* PrimaryLoop with a bug: a primary line already seen is skipped
RECURSIVE PrimaryLoopSkipsSeen(_, _, _, _)
PrimaryLoopSkipsSeen(primary, i, result, seen_primary) ==
    IF i > Len(primary) THEN [result |-> result, seen_primary |-> seen_primary]
    ELSE IF primary[i] = "" \/ primary[i] \in seen_primary
         THEN PrimaryLoopSkipsSeen(primary, i + 1, result, seen_primary)
    ELSE PrimaryLoopSkipsSeen(primary, i + 1, Append(result, primary[i]),
                              seen_primary \cup {primary[i]})

\* first loop: result and seen_primary after primary[i..]
RECURSIVE PrimaryLoop(_, _, _, _)
PrimaryLoop(primary, i, result, seen_primary) ==
    IF i > Len(primary) THEN [result |-> result, seen_primary |-> seen_primary]
    ELSE IF primary[i] = "" THEN PrimaryLoop(primary, i + 1, result, seen_primary)
    ELSE PrimaryLoop(primary, i + 1, Append(result, primary[i]), seen_primary \cup {primary[i]})

\* SecondaryLoop with a bug: the test against seen_primary is missing
RECURSIVE SecondaryLoopKeepsSeen(_, _, _, _)
SecondaryLoopKeepsSeen(secondary, i, result, seen_primary) ==
    IF i > Len(secondary) THEN result
    ELSE IF secondary[i] = "" THEN SecondaryLoopKeepsSeen(secondary, i + 1, result, seen_primary)
    ELSE SecondaryLoopKeepsSeen(secondary, i + 1, Append(result, secondary[i]), seen_primary)

\* second loop: result after secondary[i..]
RECURSIVE SecondaryLoop(_, _, _, _)
SecondaryLoop(secondary, i, result, seen_primary) ==
    IF i > Len(secondary) THEN result
    ELSE IF secondary[i] = "" THEN SecondaryLoop(secondary, i + 1, result, seen_primary)
    ELSE IF secondary[i] \in seen_primary THEN SecondaryLoop(secondary, i + 1, result, seen_primary)
    ELSE SecondaryLoop(secondary, i + 1, Append(result, secondary[i]), seen_primary)

deduplicate_lines(primary, secondary) ==
    LET first == PrimaryLoop(primary, 1, <<>>, {})
    IN  SecondaryLoop(secondary, 1, first.result, first.seen_primary)

(***************************************************************************)
(* parsers.aggregate_items                                                 *)
(***************************************************************************)
\* GroupedIndex with a bug: groups are looked up by element alone
RECURSIVE GroupedIndexByElement(_, _, _)
GroupedIndexByElement(grouped, key, i) ==
    IF i > Len(grouped) THEN 0
    ELSE IF grouped[i].Element = key[1] THEN i
    ELSE GroupedIndexByElement(grouped, key, i + 1)

\* position of key in the insertion-ordered dict grouped (0 when absent)
RECURSIVE GroupedIndex(_, _, _)
GroupedIndex(grouped, key, i) ==
    IF i > Len(grouped) THEN 0
    ELSE IF <<grouped[i].Element, grouped[i].Wymiar>> = key THEN i
    ELSE GroupedIndex(grouped, key, i + 1)

\* the body of the loop over items, for one item
GroupItem(grouped, item) ==
    LET key   == <<item.element, item.wymiar>>
        found == GroupedIndex(grouped, key, 1)
        g     == IF found = 0
                 THEN Append(grouped, [Element |-> item.element, Wymiar |-> item.wymiar,
                                       Ilosc |-> 0, Uwagi |-> {}])
                 ELSE grouped
        at    == IF found = 0 THEN Len(g) ELSE found
    IN  [g EXCEPT ![at].Ilosc = @ + 1,
                  ![at].Uwagi = IF item.uwagi # "" THEN @ \cup {item.uwagi} ELSE @]

RECURSIVE GroupLoop(_, _, _)
GroupLoop(its, i, grouped) ==
    IF i > Len(its) THEN grouped ELSE GroupLoop(its, i + 1, GroupItem(grouped, its[i]))

\* the notes the model draws from, in sorted() order
NoteOrder == <<"n1", "n2">>

\* ", ".join(sorted(uwagi)) as the list of joined notes
SortedNotes(uwagi) == SelectSeq(NoteOrder, LAMBDA n : n \in uwagi)

aggregate_items(its) ==
    LET grouped == GroupLoop(its, 1, <<>>)
    IN  [r \in 1..Len(grouped) |->
            [Element |-> grouped[r].Element, Wymiar |-> grouped[r].Wymiar,
             Ilosc |-> grouped[r].Ilosc, Uwagi |-> SortedNotes(grouped[r].Uwagi)]]

(***************************************************************************)
(* int() and str() of the integers the size extractor reads and prints     *)
(***************************************************************************)
DigitValue == [c \in Digits |->
    CASE c = "0" -> 0 [] c = "1" -> 1 [] c = "2" -> 2 [] c = "3" -> 3 [] c = "4" -> 4
      [] c = "5" -> 5 [] c = "6" -> 6 [] c = "7" -> 7 [] c = "8" -> 8 [] c = "9" -> 9]

DigitChar == [n \in 0..9 |-> CHOOSE c \in Digits : DigitValue[c] = n]

RECURSIVE DecimalValue(_)
DecimalValue(ds) ==
    IF ds = <<>> THEN 0 ELSE 10 * DecimalValue(SubSeq(ds, 1, Len(ds) - 1)) + DigitValue[ds[Len(ds)]]

\* int(token): surrounding whitespace and one sign are accepted, anything else
\* than decimal digits is a ValueError (ok = FALSE)
ParseInt(token) ==
    LET t      == Strip(token)
        signed == t # <<>> /\ t[1] \in {"+", "-"}
        ds     == IF signed THEN Tail(t) ELSE t
        ok     == ds # <<>> /\ \A i \in 1..Len(ds) : IsDigit(ds[i])
    IN  [ok |-> ok,
         value |-> IF ~ok THEN 0
                   ELSE IF signed /\ t[1] = "-" THEN 0 - DecimalValue(ds) ELSE DecimalValue(ds)]

\* str(n), as an f-string prints an int
RECURSIVE Str(_)
Str(n) ==
    IF n < 0 THEN <<"-">> \o Str(0 - n)
    ELSE IF n < 10 THEN <<DigitChar[n]>>
    ELSE Str(n \div 10) \o <<DigitChar[n % 10]>>

(***************************************************************************)
(* parsers.parse_duct_sizes                                                *)
(*                                                                         *)
(* A match is one element of regex.findall(text): a tuple of the groups    *)
(* when the pattern has two or more capture groups, otherwise one string   *)
(* (the only group, or the whole match).  groups holds the strings.        *)
(***************************************************************************)
\* Counter[key] += 1
Increment(counter, key) ==
    IF key \in DOMAIN counter THEN [counter EXCEPT ![key] = @ + 1] ELSE counter @@ (key :> 1)

\* RoundBody with a bug: the range test excludes both ends
RoundBodyExclusive(counter, m, lo, hi) ==
    LET value    == m.groups[1]
        diameter == ParseInt(value)
    IN  IF ~diameter.ok THEN counter
        ELSE IF ~(lo < diameter.value /\ diameter.value < hi) THEN counter
        ELSE Increment(counter, <<DIA>> \o Str(diameter.value))

\* body of the loop over the round matches: the counter after one match
RoundBody(counter, m, lo, hi) ==
    LET value    == m.groups[1]
        diameter == ParseInt(value)
    IN  IF ~diameter.ok THEN counter
        ELSE IF ~(lo <= diameter.value /\ diameter.value <= hi) THEN counter
        ELSE Increment(counter, <<DIA>> \o Str(diameter.value))

\* body of the loop over the rect matches: the counter after one match, or
\* raised when unpacking the tuple fails (outside the try block)
RectBody(counter, m, lo, hi) ==
    LET parts == IF m.is_tuple THEN m.groups ELSE Split(m.groups[1], "x")
    IN  IF m.is_tuple /\ Len(m.groups) # 2 THEN [raised |-> TRUE, counter |-> counter]
        ELSE IF Len(parts) # 2 THEN [raised |-> FALSE, counter |-> counter]
        ELSE LET w == ParseInt(parts[1])
                 h == ParseInt(parts[2])
             IN  IF ~w.ok \/ ~h.ok THEN [raised |-> FALSE, counter |-> counter]
                 ELSE IF ~(lo <= w.value /\ w.value <= hi /\ lo <= h.value /\ h.value <= hi)
                      THEN [raised |-> FALSE, counter |-> counter]
                 ELSE [raised |-> FALSE,
                       counter |-> Increment(counter, Str(w.value) \o <<"x">> \o Str(h.value))]

(***************************************************************************)
(* Keywords and patterns of the equipment and fittings extractors.         *)
(* A pattern is a literal text compiled with re.IGNORECASE.                *)
(***************************************************************************)
\* str.lower() of one character
Lower(c) ==
    CASE c = "A" -> "a" [] c = "B" -> "b" [] c = "K" -> "k" [] c = "M" -> "m"
      [] c = "O" -> "o" [] c = "X" -> "x" [] OTHER -> c

LowerStr(s) == [i \in 1..Len(s) |-> Lower(s[i])]

\* sub in s
Contains(s, sub) == \E i \in 1..(Len(s) + 1) : StartsAt(s, sub, i)

\* any(keyword in lower_line for keyword in keywords), keywords lowered
AnyKeyword(keywords, line) ==
    \E k \in 1..Len(keywords) : Contains(LowerStr(line), LowerStr(keywords[k]))

\* the compiled pattern matches at index i of line
PatternMatchesAt(pattern, line, i) ==
    /\ i + Len(pattern) - 1 <= Len(line)
    /\ LowerStr(SubSeq(line, i, i + Len(pattern) - 1)) = LowerStr(pattern)

\* [match.group(0) for match in regex.finditer(line)], scanning from index i
RECURSIVE FindIter(_, _, _)
FindIter(pattern, line, i) ==
    IF i > Len(line) + 1 THEN <<>>
    ELSE IF PatternMatchesAt(pattern, line, i)
         THEN <<SubSeq(line, i, i + Len(pattern) - 1)>>
              \o FindIter(pattern, line, IF pattern = <<>> THEN i + 1 ELSE i + Len(pattern))
         ELSE FindIter(pattern, line, i + 1)

\* regex.search(line): the first match, if any
Search(pattern, line) ==
    LET found == FindIter(pattern, line, 1)
    IN  [matched |-> found # <<>>, group0 |-> IF found # <<>> THEN found[1] ELSE <<>>]

(***************************************************************************)
(* parsers.parse_equipment                                                 *)
(***************************************************************************)
\* the items one regex appends for one line
RECURSIVE MatchItems(_, _, _)
MatchItems(element_name, found, k) ==
    IF k > Len(found) THEN <<>>
    ELSE LET value == Strip(found[k])
         IN  (IF value = <<>> THEN <<>> ELSE <<[element |-> element_name, wymiar |-> value]>>)
             \o MatchItems(element_name, found, k + 1)

\* the loop over regexes for one line
RECURSIVE RegexLoop(_, _, _, _)
RegexLoop(element_name, regexes, line, r) ==
    IF r > Len(regexes) THEN <<>>
    ELSE MatchItems(element_name, FindIter(regexes[r], line, 1), 1)
         \o RegexLoop(element_name, regexes, line, r + 1)

\* EquipmentLine with a bug: the keyword test is not skipped after a pattern match
EquipmentLineAlsoKeyword(config, line) ==
    IF line = <<>> THEN <<>>
    ELSE RegexLoop(config.element, config.model_regex, line, 1)
         \o (IF AnyKeyword(config.keywords, line)
             THEN <<[element |-> config.element, wymiar |-> Strip(line)]>>
             ELSE <<>>)

\* the body of the loop over lines, for one config and one line
EquipmentLine(config, line) ==
    IF line = <<>> THEN <<>>
    ELSE LET by_regex      == RegexLoop(config.element, config.model_regex, line, 1)
             matched_regex == by_regex # <<>>
         IN  IF matched_regex THEN by_regex
             ELSE IF AnyKeyword(config.keywords, line)
                  THEN <<[element |-> config.element, wymiar |-> Strip(line)]>>
             ELSE <<>>

RECURSIVE EquipmentLines(_, _, _)
EquipmentLines(config, lns, i) ==
    IF i > Len(lns) THEN <<>>
    ELSE EquipmentLine(config, lns[i]) \o EquipmentLines(config, lns, i + 1)

RECURSIVE EquipmentConfigs(_, _, _)
EquipmentConfigs(equipment_patterns, lns, c) ==
    IF c > Len(equipment_patterns) THEN <<>>
    ELSE EquipmentLines(equipment_patterns[c], lns, 1)
         \o EquipmentConfigs(equipment_patterns, lns, c + 1)

parse_equipment(lns, equipment_patterns) == EquipmentConfigs(equipment_patterns, lns, 1)

(***************************************************************************)
(* parsers._search_sizes and parsers.parse_fittings                        *)
(***************************************************************************)
RECURSIVE SearchRegexes(_, _, _)
SearchRegexes(line, regexes, r) ==
    IF r > Len(regexes) THEN [matched |-> FALSE, group0 |-> <<>>]
    ELSE LET m == Search(regexes[r], line)
         IN  IF m.matched THEN m ELSE SearchRegexes(line, regexes, r + 1)

RECURSIVE SearchTexts(_, _, _)
SearchTexts(texts, regexes, t) ==
    IF t > Len(texts) THEN <<>>
    ELSE LET m == SearchRegexes(texts[t], regexes, 1)
         IN  IF m.matched THEN Strip(m.group0) ELSE SearchTexts(texts, regexes, t + 1)

search_sizes(texts, regexes) == SearchTexts(texts, regexes, 1)

\* compiled_cache.get(element_name, []): the dict comprehension keeps, for each
\* element name, the size_regex of the last config bearing that name
RECURSIVE CompiledCacheGet(_, _, _)
CompiledCacheGet(fittings_patterns, element_name, c) ==
    IF c = 0 THEN <<>>
    ELSE IF fittings_patterns[c].element = element_name THEN fittings_patterns[c].size_regex
    ELSE CompiledCacheGet(fittings_patterns, element_name, c - 1)

Max(a, b) == IF a >= b THEN a ELSE b
Min(a, b) == IF a <= b THEN a ELSE b

\* lines[start:end] with start = max(0, idx - window), end = min(len(lines), idx + window + 1);
\* i = idx + 1 is the 1-based index
Neighbourhood(lns, i, win) == SubSeq(lns, Max(0, i - 1 - win) + 1, Min(Len(lns), i + win))

\* the loop over configs for the line at index i
RECURSIVE FittingsConfigs(_, _, _, _, _)
FittingsConfigs(lns, fittings_patterns, win, i, c) ==
    IF c > Len(fittings_patterns) THEN <<>>
    ELSE LET config     == fittings_patterns[c]
             size_value == search_sizes(Neighbourhood(lns, i, win),
                               CompiledCacheGet(fittings_patterns, config.element,
                                                Len(fittings_patterns)))
         IN  (IF ~AnyKeyword(config.keywords, lns[i]) THEN <<>>
              ELSE <<[element |-> config.element, wymiar |-> size_value]>>)
             \o FittingsConfigs(lns, fittings_patterns, win, i, c + 1)

RECURSIVE FittingsLines(_, _, _, _)
FittingsLines(lns, fittings_patterns, win, i) ==
    IF i > Len(lns) THEN <<>>
    ELSE FittingsConfigs(lns, fittings_patterns, win, i, 1)
         \o FittingsLines(lns, fittings_patterns, win, i + 1)

parse_fittings(lns, fittings_patterns, win) == FittingsLines(lns, fittings_patterns, win, 1)

(***************************************************************************)
(* Values of the variables a specification does not use                    *)
(***************************************************************************)
NoMatch == [is_tuple |-> FALSE, groups |-> <<>>]

NormIdle == text = <<>> /\ prev = <<>> /\ calls = 0
CombIdle == vector_lines = <<>> /\ ocr_lines = <<>> /\ combined_lines = <<>>
AggIdle  == items = <<>> /\ rows = <<>>
DuctIdle == /\ phase = "idle" /\ match = NoMatch /\ handled = 0
            /\ round_counter = <<>> /\ rect_counter = <<>>
            /\ round_min = 0 /\ round_max = 0 /\ rect_min = 0 /\ rect_max = 0
EqIdle   == equipment = <<>> /\ equipment_items = <<>>
FitIdle  == fittings = <<>> /\ window = 0 /\ fittings_items = <<>>
CfgIdle  == /\ config_file = "ok" /\ cache = 0 /\ opened = 0
            /\ pc = <<>> /\ held = <<>> /\ executed = <<>> /\ failure = <<>>

SeqsUpTo(S, n) == UNION {[1..k -> S] : k \in 0..n}
Range(s) == {s[i] : i \in DOMAIN s}

(***************************************************************************)
(* Specification SpecNormalize: normalize_text applied repeatedly to a     *)
(* bounded raw text                                                        *)
(***************************************************************************)
MaxTextLen == 5
MaxCalls   == 2
TextAlphabet == {"O", "1", " ", "\n", ",", "/", ">"}

NormInit ==
    /\ text \in SeqsUpTo(TextAlphabet, MaxTextLen) /\ prev = <<>> /\ calls = 0
    /\ CombIdle /\ AggIdle /\ DuctIdle /\ lines = <<>> /\ EqIdle /\ FitIdle /\ CfgIdle
    /\ returned = FALSE

\* one call text = normalize_text(text)
NormalizeText ==
    /\ calls < MaxCalls
    /\ prev' = text
    /\ text' = normalize_text(text)
    /\ calls' = calls + 1
    /\ UNCHANGED <<combVars, aggVars, ductVars, lines, eqVars, fitVars, cfgVars, returned>>

SpecNormalize == NormInit /\ [][NormalizeText]_vars

\* C2: normalize_text is idempotent: normalizing the output of normalize_text
\* once more returns it unchanged
NormalizeIdempotent == calls >= 2 => text = prev

(***************************************************************************)
(* Specification SpecCombine: extract_text combines the vector and OCR     *)
(* lines with deduplicate_lines                                            *)
(***************************************************************************)
MaxLines == 3
LineSet  == {"", "a", "b"}

CombInit ==
    /\ vector_lines \in SeqsUpTo(LineSet, MaxLines)
    /\ ocr_lines \in SeqsUpTo(LineSet, MaxLines)
    /\ combined_lines = <<>>
    /\ NormIdle /\ AggIdle /\ DuctIdle /\ lines = <<>> /\ EqIdle /\ FitIdle /\ CfgIdle
    /\ returned = FALSE

\* combined_lines = utils.deduplicate_lines(vector_lines, ocr_lines)
Combine ==
    /\ ~returned
    /\ combined_lines' = deduplicate_lines(vector_lines, ocr_lines)
    /\ returned' = TRUE
    /\ UNCHANGED <<vector_lines, ocr_lines>>
    /\ UNCHANGED <<normVars, aggVars, ductVars, lines, eqVars, fitVars, cfgVars>>

SpecCombine == CombInit /\ [][Combine]_vars

NonEmptyLines(s) == SelectSeq(s, LAMBDA l : l # "")
Distinct(s) == \A i, j \in DOMAIN s : i # j => s[i] # s[j]

\* each repeated line of s reduced to its first occurrence, order preserved
DedupInOrder(s) ==
    LET firsts == {i \in DOMAIN s : \A j \in 1..(i - 1) : s[j] # s[i]}
        F[k \in 0..Len(s)] ==
            IF k = 0 THEN <<>> ELSE IF k \in firsts THEN Append(F[k - 1], s[k]) ELSE F[k - 1]
    IN  F[Len(s)]

\* C3: the result is every non-empty primary line in order (repeats kept), then
\* every non-empty secondary line whose text does not occur in primary, in
\* order; so combine(A, A) = A when A has only distinct non-empty lines
CombineExact ==
    returned =>
        /\ combined_lines =
              NonEmptyLines(vector_lines)
              \o SelectSeq(ocr_lines, LAMBDA l : l # "" /\ l \notin Range(vector_lines))
        /\ (vector_lines = ocr_lines /\ Distinct(vector_lines) /\ "" \notin Range(vector_lines))
              => combined_lines = vector_lines

\* C3 witness: a repeated primary line is kept, an OCR line equal to a primary
\* line is dropped, a new OCR line is appended twice, an empty line is skipped
CombineExactWitness ==
    /\ returned
    /\ vector_lines = <<"a", "", "a">>
    /\ ocr_lines = <<"a", "b", "b">>
    /\ combined_lines = <<"a", "a", "b", "b">>

\* C4 as stated: with an empty secondary the result is dedup-in-order(primary)
CombineEmptyIsDedup ==
    (returned /\ ocr_lines = <<>>) => combined_lines = DedupInOrder(vector_lines)

\* C4 amended: with an empty secondary the result is the primary without its
\* empty lines, every repeated line kept in place; it is dedup-in-order(primary)
\* when the primary has only distinct non-empty lines
CombineEmptyKeepsRepeats ==
    (returned /\ ocr_lines = <<>>) =>
        /\ combined_lines = NonEmptyLines(vector_lines)
        /\ (Distinct(vector_lines) /\ "" \notin Range(vector_lines))
              => combined_lines = DedupInOrder(vector_lines)

\* C4 witness: a primary with a repeated line combined with an empty secondary
CombineEmptyWitness ==
    /\ returned
    /\ ocr_lines = <<>>
    /\ vector_lines = <<"a", "b", "a">>
    /\ combined_lines = <<"a", "b", "a">>

(***************************************************************************)
(* Specification SpecAggregate: aggregate_items on a bounded item list     *)
(***************************************************************************)
MaxItems == 3
ItemSet == [element : {"E1", "E2"}, wymiar : {"", "d1"}, uwagi : {"", "n1", "n2"}]

AggInit ==
    /\ items \in SeqsUpTo(ItemSet, MaxItems)
    /\ rows = <<>>
    /\ NormIdle /\ CombIdle /\ DuctIdle /\ lines = <<>> /\ EqIdle /\ FitIdle /\ CfgIdle
    /\ returned = FALSE

\* rows = parsers.aggregate_items(items)
Aggregate ==
    /\ ~returned
    /\ rows' = aggregate_items(items)
    /\ returned' = TRUE
    /\ UNCHANGED items
    /\ UNCHANGED <<normVars, combVars, ductVars, lines, eqVars, fitVars, cfgVars>>

SpecAggregate == AggInit /\ [][Aggregate]_vars

ItemKey(item) == <<item.element, item.wymiar>>
RowKey(row)   == <<row.Element, row.Wymiar>>
FirstIndex(key) == CHOOSE i \in DOMAIN items : ItemKey(items[i]) = key /\
                        \A j \in 1..(i - 1) : ItemKey(items[j]) # key

RECURSIVE SumQuantities(_, _)
SumQuantities(rs, r) == IF r > Len(rs) THEN 0 ELSE rs[r].Ilosc + SumQuantities(rs, r + 1)

\* C5: one row per distinct (element, dimension) pair of the items, in order
\* of first occurrence, its quantity the number of items with that pair (>= 1);
\* no two rows share a pair and the quantities sum to the number of items
AggregateExact ==
    returned =>
        /\ {RowKey(rows[r]) : r \in DOMAIN rows} = {ItemKey(items[i]) : i \in DOMAIN items}
        /\ \A r1, r2 \in DOMAIN rows : r1 # r2 => RowKey(rows[r1]) # RowKey(rows[r2])
        /\ \A r1, r2 \in DOMAIN rows :
              r1 < r2 => FirstIndex(RowKey(rows[r1])) < FirstIndex(RowKey(rows[r2]))
        /\ \A r \in DOMAIN rows :
              /\ rows[r].Ilosc >= 1
              /\ rows[r].Ilosc =
                    Cardinality({i \in DOMAIN items : ItemKey(items[i]) = RowKey(rows[r])})
        /\ SumQuantities(rows, 1) = Len(items)

\* C5 witness: three items, the first and third sharing (E1, ""), the second
\* (E1, d1): two rows, the empty dimension a key of its own with quantity 2
AggregateExactWitness ==
    /\ returned
    /\ Len(items) = 3
    /\ ItemKey(items[1]) = <<"E1", "">> /\ ItemKey(items[2]) = <<"E1", "d1">>
    /\ ItemKey(items[3]) = <<"E1", "">>
    /\ Len(rows) = 2 /\ rows[1].Ilosc = 2 /\ rows[2].Ilosc = 1

(***************************************************************************)
(* Specification SpecDuct: parse_duct_sizes, one step per match that the   *)
(* compiled round and rect patterns find in the text                       *)
(***************************************************************************)
MaxMatches == 3

StrMatch(token)    == [is_tuple |-> FALSE, groups |-> <<token>>]
TupleMatch(groups) == [is_tuple |-> TRUE, groups |-> groups]

\* what the round patterns may find: in and out of range, a leading zero,
\* unparsable and empty tokens, two-group patterns
RoundMatches ==
    {StrMatch(t) : t \in {<<"1">>, <<"2">>, <<"3">>, <<"4">>, <<"0", "3">>, <<"q">>, <<>>}}
    \cup {TupleMatch(<< <<"2">>, <<"q">> >>), TupleMatch(<< <<"q">>, <<"2">> >>)}

\* what the rect patterns may find: two groups, three groups, and tokens with
\* one, two and three parts around "x"
RectMatches ==
    {TupleMatch(<<w, h>>) : <<w, h>> \in {
        << <<"2">>, <<"3">> >>, << <<"3">>, <<"2">> >>, << <<"3">>, <<"3">> >>,
        << <<"1">>, <<"2">> >>, << <<"2">>, <<"4">> >>, << <<"0", "2">>, <<"3">> >>,
        << <<"q">>, <<"2">> >>, << <<"2">>, <<>> >>}}
    \cup {TupleMatch(<< <<"2">>, <<"3">>, <<>> >>)}
    \cup {StrMatch(t) : t \in {<<"2", "x", "3">>, <<"3", "x", "2">>, <<"2", "x", "3", "x", "3">>,
                               <<"2", "3">>, <<"2", "X", "3">>, <<"1", "x", "3">>,
                               <<"2", " ", "x", " ", "3">>, <<"q", "x", "2">>}}

\* ranges as read by int(ranges.get(key, default)): configured, or the defaults
RangeConfigs == {
    [round_min |-> 2, round_max |-> 3, rect_min |-> 2, rect_max |-> 3],
    [round_min |-> 3, round_max |-> 3, rect_min |-> 0, rect_max |-> 3],
    [round_min |-> 0, round_max |-> 1000000, rect_min |-> 0, rect_max |-> 1000000]}

DuctInit ==
    /\ phase = "round" /\ match = NoMatch /\ handled = 0
    /\ round_counter = <<>> /\ rect_counter = <<>>
    /\ \E r \in RangeConfigs :
          /\ round_min = r.round_min /\ round_max = r.round_max
          /\ rect_min = r.rect_min /\ rect_max = r.rect_max
    /\ NormIdle /\ CombIdle /\ AggIdle /\ lines = <<>> /\ EqIdle /\ FitIdle /\ CfgIdle
    /\ returned = FALSE

notDuct == <<normVars, combVars, aggVars, lines, eqVars, fitVars, cfgVars, returned>>

\* one iteration of the loop over the round matches
RoundMatch ==
    /\ phase = "round" /\ handled < MaxMatches
    /\ \E m \in RoundMatches :
          /\ match' = m
          /\ round_counter' = RoundBody(round_counter, m, round_min, round_max)
    /\ handled' = handled + 1
    /\ UNCHANGED <<phase, rect_counter, round_min, round_max, rect_min, rect_max>>
    /\ UNCHANGED notDuct

\* the round patterns are exhausted
RoundLoopEnds ==
    /\ phase = "round"
    /\ phase' = "rect"
    /\ UNCHANGED <<match, handled, round_counter, rect_counter,
                   round_min, round_max, rect_min, rect_max>>
    /\ UNCHANGED notDuct

\* one iteration of the loop over the rect matches
RectMatch ==
    /\ phase = "rect" /\ handled < MaxMatches
    /\ \E m \in RectMatches :
          LET r == RectBody(rect_counter, m, rect_min, rect_max)
          IN  /\ match' = m
              /\ rect_counter' = r.counter
              /\ phase' = IF r.raised THEN "raised" ELSE "rect"
    /\ handled' = handled + 1
    /\ UNCHANGED <<round_counter, round_min, round_max, rect_min, rect_max>>
    /\ UNCHANGED notDuct

\* return dict(round_counter), dict(rect_counter)
DuctReturn ==
    /\ phase = "rect"
    /\ phase' = "returned"
    /\ UNCHANGED <<match, handled, round_counter, rect_counter,
                   round_min, round_max, rect_min, rect_max>>
    /\ UNCHANGED notDuct

DuctNext == RoundMatch \/ RoundLoopEnds \/ RectMatch \/ DuctReturn

SpecDuct == DuctInit /\ [][DuctNext]_vars

\* counter.get(key, 0)
Tally(counter, key) == IF key \in DOMAIN counter THEN counter[key] ELSE 0

\* after is before with the entry key one higher and nothing else changed
OnlyIncremented(before, after, key) ==
    /\ DOMAIN after = DOMAIN before \cup {key}
    /\ after[key] = Tally(before, key) + 1
    /\ \A k \in DOMAIN before : k # key => after[k] = before[k]

\* C6: a round match whose integer value is v raises the entry DIA<v> by one when
\* round_min <= v <= round_max (both ends included) and leaves the round tally
\* unchanged otherwise; the rect tally is never touched
RoundRangeInclusive ==
    [][(phase = "round" /\ handled' = handled + 1) =>
          LET v == ParseInt(match'.groups[1])
          IN  /\ rect_counter' = rect_counter
              /\ v.ok =>
                    IF round_min <= v.value /\ v.value <= round_max
                    THEN OnlyIncremented(round_counter, round_counter', <<DIA>> \o Str(v.value))
                    ELSE round_counter' = round_counter]_vars

\* C6 witness: with the range [2, 3], matches 2 (= round_min) and 3 (= round_max)
\* were counted and the last match, 4 (= round_max + 1), was not
RoundRangeWitness ==
    /\ phase = "round" /\ handled = 3
    /\ round_min = 2 /\ round_max = 3
    /\ match = StrMatch(<<"4">>)
    /\ DOMAIN round_counter = {<<DIA, "2">>, <<DIA, "3">>}
    /\ round_counter[<<DIA, "2">>] = 1 /\ round_counter[<<DIA, "3">>] = 1

\* the two components of a rect match, if it has exactly two
RectParts(m) == IF m.is_tuple THEN m.groups ELSE Split(m.groups[1], "x")

RectCounts(m) ==
    /\ Len(RectParts(m)) = 2
    /\ ParseInt(RectParts(m)[1]).ok /\ ParseInt(RectParts(m)[2]).ok
    /\ rect_min <= ParseInt(RectParts(m)[1]).value /\ ParseInt(RectParts(m)[1]).value <= rect_max
    /\ rect_min <= ParseInt(RectParts(m)[2]).value /\ ParseInt(RectParts(m)[2]).value <= rect_max

\* C10: a rect match is counted iff it has exactly two components that both parse
\* as integers within [rect_min, rect_max]; a counted match raises exactly the
\* entry <w>x<h>, in source order; every other match is discarded silently: both
\* tallies unchanged and no error raised
RectCountedOrDiscarded ==
    [][(phase = "rect" /\ handled' = handled + 1) =>
          /\ phase' # "raised"
          /\ round_counter' = round_counter
          /\ IF RectCounts(match')
             THEN OnlyIncremented(rect_counter, rect_counter',
                      Str(ParseInt(RectParts(match')[1]).value) \o <<"x">>
                      \o Str(ParseInt(RectParts(match')[2]).value))
             ELSE rect_counter' = rect_counter]_vars

(***************************************************************************)
(* Specification SpecEquipment: parse_equipment on bounded lines and       *)
(* equipment definitions                                                   *)
(***************************************************************************)
MaxEqLines == 2
MaxEqDefs  == 2

\* normalized lines: a keyword and a model code, a keyword alone in upper case,
\* two model codes, neither, a model code followed by a space
EqLineSet == {<<"k", " ", "M">>, <<"K">>, <<"m", " ", "m">>, <<"a">>, <<"M", " ">>}

\* definitions: one pattern; two patterns, the first matching a trailing space;
\* a pattern matching whitespace only; an empty pattern and two keywords
EqDefSet == {
    [element |-> "E1", keywords |-> << <<"K">> >>,          model_regex |-> << <<"M">> >>],
    [element |-> "E2", keywords |-> << <<"k">> >>,          model_regex |-> << <<"m", " ">>, <<"m">> >>],
    [element |-> "E1", keywords |-> << <<"k">> >>,          model_regex |-> << <<" ">> >>],
    [element |-> "E3", keywords |-> << <<"b">>, <<"k">> >>, model_regex |-> << <<>> >>]}

EqInit ==
    /\ lines \in SeqsUpTo(EqLineSet, MaxEqLines)
    /\ equipment \in SeqsUpTo(EqDefSet, MaxEqDefs)
    /\ equipment_items = <<>>
    /\ NormIdle /\ CombIdle /\ AggIdle /\ DuctIdle /\ FitIdle /\ CfgIdle
    /\ returned = FALSE

\* equipment_items = parsers.parse_equipment(lines, patterns)
ParseEquipment ==
    /\ ~returned
    /\ equipment_items' = parse_equipment(lines, equipment)
    /\ returned' = TRUE
    /\ UNCHANGED <<lines, equipment>>
    /\ UNCHANGED <<normVars, combVars, aggVars, ductVars, fitVars, cfgVars>>

SpecEquipment == EqInit /\ [][ParseEquipment]_vars

RECURSIVE Flatten(_)
Flatten(ss) == IF ss = <<>> THEN <<>> ELSE Head(ss) \o Flatten(Tail(ss))

\* every match of every pattern of the definition on the line, pattern by pattern
AllMatches(config, line) ==
    Flatten([r \in 1..Len(config.model_regex) |-> FindIter(config.model_regex[r], line, 1)])

KeywordItem(config, line) ==
    IF AnyKeyword(config.keywords, line)
    THEN <<[element |-> config.element, wymiar |-> Strip(line)]>>
    ELSE <<>>

\* what the (definition, line) pair contributes according to C8 as stated: the
\* non-empty matches, each with the matched substring as dimension
ContributionAsStated(config, line) ==
    LET hits == SelectSeq(AllMatches(config, line), LAMBDA m : m # <<>>)
    IN  IF hits # <<>>
        THEN [k \in 1..Len(hits) |-> [element |-> config.element, wymiar |-> hits[k]]]
        ELSE KeywordItem(config, line)

\* what the pair contributes according to C8 as amended: the matches that are
\* non-empty once trimmed, each with the trimmed matched substring as dimension
ContributionTrimmed(config, line) ==
    LET hits == SelectSeq(AllMatches(config, line), LAMBDA m : Strip(m) # <<>>)
    IN  IF hits # <<>>
        THEN [k \in 1..Len(hits) |-> [element |-> config.element, wymiar |-> Strip(hits[k])]]
        ELSE KeywordItem(config, line)

\* the contributions of all pairs, definition by definition, line by line
AllPairs(Contribution(_, _)) ==
    Flatten([c \in 1..Len(equipment) |->
        Flatten([i \in 1..Len(lines) |-> Contribution(equipment[c], lines[i])])])

\* C8 as stated: pattern matches take precedence over keywords; a pair with a
\* non-empty match contributes one item per such match, its dimension the
\* matched substring, and no keyword item; otherwise one keyword item whose
\* dimension is the trimmed line, or nothing
EquipmentMatchedSubstring == returned => equipment_items = AllPairs(ContributionAsStated)

\* C8 amended: a pair with a match that is non-empty after trimming whitespace
\* contributes one item per such match, its dimension the trimmed match, and no
\* keyword item; a pair without one contributes one keyword item whose dimension
\* is the trimmed line if a keyword occurs in the line (ignoring case), else nothing
EquipmentTrimmedMatch == returned => equipment_items = AllPairs(ContributionTrimmed)

\* C8 witness: line "k M" under the definition (E1, keyword K, pattern M) gives
\* the model code only; line "K" gives the keyword item
EquipmentWitness ==
    /\ returned
    /\ lines = << <<"k", " ", "M">>, <<"K">> >>
    /\ Len(equipment) = 1 /\ equipment[1].model_regex = << <<"M">> >>
    /\ equipment_items = << [element |-> "E1", wymiar |-> <<"M">>],
                            [element |-> "E1", wymiar |-> <<"K">>] >>

(***************************************************************************)
(* Specification SpecFittings: parse_fittings on bounded lines, fitting    *)
(* definitions and window                                                  *)
(***************************************************************************)
MaxFitLines == 3
MaxFitDefs  == 2
MaxWindow   == 2

FitLineSet == {<<"k">>, <<"1">>, <<"K", " ", "2">>, <<"b">>, <<"2", "1", " ">>}

\* the first two definitions bear the same element name
FitDefSet == {
    [element |-> "K", keywords |-> << <<"k">> >>, size_regex |-> << <<"1">> >>],
    [element |-> "K", keywords |-> << <<"b">> >>, size_regex |-> << <<"2">> >>],
    [element |-> "T", keywords |-> << <<"K">> >>, size_regex |-> << <<"1", " ">>, <<"2">> >>]}

FitInit ==
    /\ lines \in SeqsUpTo(FitLineSet, MaxFitLines)
    /\ fittings \in SeqsUpTo(FitDefSet, MaxFitDefs)
    /\ window \in 0..MaxWindow
    /\ fittings_items = <<>>
    /\ NormIdle /\ CombIdle /\ AggIdle /\ DuctIdle /\ EqIdle /\ CfgIdle
    /\ returned = FALSE

\* fittings_items = parsers.parse_fittings(lines, patterns, window)
ParseFittings ==
    /\ ~returned
    /\ fittings_items' = parse_fittings(lines, fittings, window)
    /\ returned' = TRUE
    /\ UNCHANGED <<lines, fittings, window>>
    /\ UNCHANGED <<normVars, combVars, aggVars, ductVars, eqVars, cfgVars>>

SpecFittings == FitInit /\ [][ParseFittings]_vars

\* the size patterns of definition d that match line j
MatchingPatterns(d, j) ==
    {r \in 1..Len(d.size_regex) : Search(d.size_regex[r], lines[j]).matched}

\* the dimension C9 gives the pair (line i, definition d): the first match in
\* lines max(1, i - window) .. min(n, i + window), by line and then by pattern
\* of d, trimmed as _search_sizes returns it; empty when none of them matches
FirstSizeNear(i, d) ==
    LET near == {j \in Max(1, i - window)..Min(Len(lines), i + window) :
                    MatchingPatterns(d, j) # {}}
    IN  IF near = {} THEN <<>>
        ELSE LET j == CHOOSE x \in near : \A y \in near : x <= y
                 r == CHOOSE x \in MatchingPatterns(d, j) :
                         \A y \in MatchingPatterns(d, j) : x <= y
             IN  Strip(Search(d.size_regex[r], lines[j]).group0)

\* C9: every (line i, definition d) pair whose keyword matches yields exactly one
\* item, its dimension the first match of d's own size patterns in the clamped
\* neighbourhood of i, or the empty string; other pairs yield nothing
FittingsFirstMatchOfDefinition ==
    returned =>
        fittings_items =
            Flatten([i \in 1..Len(lines) |->
                Flatten([c \in 1..Len(fittings) |->
                    IF AnyKeyword(fittings[c].keywords, lines[i])
                    THEN <<[element |-> fittings[c].element,
                            wymiar |-> FirstSizeNear(i, fittings[c])]>>
                    ELSE <<>>])])

(***************************************************************************)
(* Specification SpecConfig: concurrent requests, each running             *)
(* process_upload in a worker thread (main.extract, run_in_threadpool);    *)
(* load_patterns is wrapped by functools.lru_cache(maxsize=1)              *)
(***************************************************************************)
MaxRequests == 2
Requests == 1..MaxRequests

NoFailure == [status |-> 0, cause |-> "none"]

CfgInit ==
    /\ config_file \in {"ok", "missing", "unparsable", "bad_regex"}
    /\ cache = 0 /\ opened = 0
    /\ pc = [t \in Requests |-> "start"]
    /\ held = [t \in Requests |-> 0]
    /\ executed = [t \in Requests |-> {}]
    /\ failure = [t \in Requests |-> NoFailure]
    /\ NormIdle /\ CombIdle /\ AggIdle /\ DuctIdle /\ lines = <<>> /\ EqIdle /\ FitIdle
    /\ returned = FALSE

notCfg == <<normVars, combVars, aggVars, ductVars, lines, eqVars, fitVars, returned>>

\* raise HTTPException(status_code = status), out of process_upload and extract
Raise(t, status, cause) ==
    /\ pc' = [pc EXCEPT ![t] = "failed"]
    /\ failure' = [failure EXCEPT ![t] = [status |-> status, cause |-> cause]]

\* a pipeline step that cannot fail
Step(t, from, name, to) ==
    /\ pc[t] = from
    /\ pc' = [pc EXCEPT ![t] = to]
    /\ executed' = [executed EXCEPT ![t] = @ \cup {name}]
    /\ UNCHANGED <<config_file, cache, opened, held, failure>>
    /\ UNCHANGED notCfg

\* the content-type test that opens process_upload
CheckContentType(t) ==
    /\ pc[t] = "start"
    /\ \E is_pdf \in BOOLEAN :
          IF is_pdf THEN pc' = [pc EXCEPT ![t] = "prepare"] /\ UNCHANGED failure
          ELSE Raise(t, 400, "content_type")
    /\ UNCHANGED <<config_file, cache, opened, held, executed>>
    /\ UNCHANGED notCfg

\* utils.prepare_job_directories
PrepareJobDirectories(t) == Step(t, "prepare", "job_dir", "save")

\* utils.save_upload_file
SaveUploadFile(t) == Step(t, "save", "save_upload", "extract_text")

\* extract_text(pdf_path) inside its try block
ExtractText(t) ==
    /\ pc[t] = "extract_text"
    /\ \E outcome \in {"text", "RuntimeError", "Exception"} :
          CASE outcome = "text" ->
                  /\ pc' = [pc EXCEPT ![t] = "normalize"]
                  /\ executed' = [executed EXCEPT ![t] = @ \cup {"extract_text"}]
                  /\ UNCHANGED failure
            [] outcome = "RuntimeError" -> Raise(t, 400, "pdf") /\ UNCHANGED executed
            [] outcome = "Exception" -> Raise(t, 500, "extract_text") /\ UNCHANGED executed
    /\ UNCHANGED <<config_file, cache, opened, held>>
    /\ UNCHANGED notCfg

\* utils.normalize_text and utils.as_lines
NormalizeAndSplit(t) == Step(t, "normalize", "normalize", "load_patterns")

\* load_patterns(): the cache lookup of the lru_cache wrapper
LoadPatternsLookup(t) ==
    /\ pc[t] = "load_patterns"
    /\ IF cache # 0
       THEN held' = [held EXCEPT ![t] = cache] /\ pc' = [pc EXCEPT ![t] = "parse"]
       ELSE UNCHANGED held /\ pc' = [pc EXCEPT ![t] = "load_call"]
    /\ UNCHANGED <<config_file, cache, opened, executed, failure>>
    /\ UNCHANGED notCfg

\* the body of load_patterns, run after a cache miss: open and parse the file
LoadPatternsBody(t) ==
    /\ pc[t] = "load_call"
    /\ CASE config_file = "missing" ->
               Raise(t, 500, "config") /\ UNCHANGED <<opened, held>>
         [] config_file = "unparsable" ->
               Raise(t, 500, "config") /\ opened' = opened + 1 /\ UNCHANGED held
         [] OTHER ->
               /\ opened' = opened + 1
               /\ held' = [held EXCEPT ![t] = opened + 1]
               /\ pc' = [pc EXCEPT ![t] = "load_store"]
               /\ UNCHANGED failure
    /\ UNCHANGED <<config_file, cache, executed>>
    /\ UNCHANGED notCfg

\* the lru_cache wrapper after the body returned: the result is stored unless
\* the key was added during the call, and is returned to the caller either way
LoadPatternsStore(t) ==
    /\ pc[t] = "load_store"
    /\ cache' = IF cache = 0 THEN held[t] ELSE cache
    /\ pc' = [pc EXCEPT ![t] = "parse"]
    /\ UNCHANGED <<config_file, opened, held, executed, failure>>
    /\ UNCHANGED notCfg

\* parse_equipment, parse_fittings, parse_duct_sizes: _compile raises re.error on
\* an invalid pattern, which extract turns into a 500
ParseEntities(t) ==
    /\ pc[t] = "parse"
    /\ IF config_file = "bad_regex"
       THEN Raise(t, 500, "config") /\ UNCHANGED executed
       ELSE /\ pc' = [pc EXCEPT ![t] = "aggregate"]
            /\ executed' = [executed EXCEPT ![t] = @ \cup {"entity_extraction"}]
            /\ UNCHANGED failure
    /\ UNCHANGED <<config_file, cache, opened, held>>
    /\ UNCHANGED notCfg

\* aggregate_items, build_round_rows, build_rect_rows
AggregateRows(t) == Step(t, "aggregate", "aggregate", "export")

\* utils.write_excel, then the response is returned
WriteExcel(t) == Step(t, "export", "export", "done")

CfgNext ==
    \E t \in Requests :
        \/ CheckContentType(t)
        \/ PrepareJobDirectories(t)
        \/ SaveUploadFile(t)
        \/ ExtractText(t)
        \/ NormalizeAndSplit(t)
        \/ LoadPatternsLookup(t)
        \/ LoadPatternsBody(t)
        \/ LoadPatternsStore(t)
        \/ ParseEntities(t)
        \/ AggregateRows(t)
        \/ WriteExcel(t)

SpecConfig == CfgInit /\ [][CfgNext]_vars

\* C1: the configuration file is opened and parsed at most once, and all callers
\* of load_patterns hold the same configuration instance
SingleInitialization ==
    /\ opened <= 1
    /\ \A t1, t2 \in Requests : (held[t1] # 0 /\ held[t2] # 0) => held[t1] = held[t2]

\* C7: with a missing, unparsable or invalid configuration every request ends in
\* an error, and a request that ends in the configuration error has executed no
\* pipeline step before it
ConfigErrorBeforeAnyWork ==
    \A t \in Requests :
        /\ (config_file # "ok") => pc[t] # "done"
        /\ (pc[t] = "failed" /\ failure[t].cause = "config") => executed[t] = {}

====
